---- MODULE Spec2Model ----
(***************************************************************************)
(* liquers-core: the query grammar (parse.rs), the syntax model and its    *)
(* encoders (query.rs), parameter coercion (query.rs), the callable action *)
(* adapters, the action registry and the evaluator (action_registry.rs).   *)
(*                                                                         *)
(* A text is a sequence of Unicode code points (integers).  Positions are  *)
(* kept as the number of characters consumed; byte offsets are computed    *)
(* from the UTF-8 width of the characters, as nom_locate does.  Character  *)
(* classes are exact for code points below 256.                            *)
(***************************************************************************)
EXTENDS Integers, Sequences, FiniteSets, TLC

-----------------------------------------------------------------------------
(* Characters and strings *)

\* The printable ASCII characters in code order, starting at code 32.
AsciiTable ==
  << " ", "!", "\"", "#", "$", "%", "&", "'", "(", ")", "*", "+", ",", "-", ".", "/",
     "0", "1", "2", "3", "4", "5", "6", "7", "8", "9", ":", ";", "<", "=", ">", "?",
     "@", "A", "B", "C", "D", "E", "F", "G", "H", "I", "J", "K", "L", "M", "N", "O",
     "P", "Q", "R", "S", "T", "U", "V", "W", "X", "Y", "Z", "[", "\\", "]", "^", "_",
     "grave", "a", "b", "c", "d", "e", "f", "g", "h", "i", "j", "k", "l", "m", "n", "o",
     "p", "q", "r", "s", "t", "u", "v", "w", "x", "y", "z", "{", "|", "}", "~" >>

\* Code point of a printable ASCII character.
Ord(c) == 31 + (CHOOSE i \in 1..Len(AsciiTable) : AsciiTable[i] = c)

\* A string literal: the tuple of its characters, as code points.
Str(s) == [i \in 1..Len(s) |-> Ord(s[i])]

\* The characters the grammar names.
Minus == Ord("-")

Slash == Ord("/")

Tilde == Ord("~")

Percent == Ord("%")

Underscore == Ord("_")

Plus == Ord("+")

\* char::is_alphabetic, char::is_numeric, char::is_alphanumeric (Latin-1 range)
IsAlphabetic(c) ==
  \/ c \in 65..90
  \/ c \in 97..122
  \/ c \in {170, 181, 186}
  \/ c \in 192..214
  \/ c \in 216..246
  \/ c \in 248..255

IsNumeric(c) == c \in 48..57 \/ c \in {178, 179, 185, 188, 189, 190}

IsAlphanumeric(c) == IsAlphabetic(c) \/ IsNumeric(c)

\* char::is_digit(16) and the digit1 predicate of nom (ASCII digits)
IsHexDigit(c) == c \in 48..57 \/ c \in 65..70 \/ c \in 97..102

IsDecDigit(c) == c \in 48..57

\* Value of a hexadecimal digit.
HexVal(c) ==
  IF c \in 48..57 THEN c - 48
  ELSE IF c \in 65..70 THEN c - 55
  ELSE c - 87

\* The character classes used by the grammar's take_while predicates.
InClass(cls, c) ==
  CASE cls = "alpha_" -> IsAlphabetic(c) \/ c = Underscore
    [] cls = "alnum_" -> IsAlphanumeric(c) \/ c = Underscore
    [] cls = "digit"  -> IsDecDigit(c)
    [] cls = "minus"  -> c = Minus

\* Number of bytes of the UTF-8 encoding of a code point.
Utf8Len(c) ==
  IF c < 128 THEN 1 ELSE IF c < 2048 THEN 2 ELSE IF c < 65536 THEN 3 ELSE 4

\* UTF-8 bytes of a code point (code points below 2048).
Utf8Bytes(c) ==
  IF c < 128 THEN << c >> ELSE << 192 + (c \div 64), 128 + (c % 64) >>

RECURSIVE Utf8Encode(_)
Utf8Encode(s) ==
  IF s = << >> THEN << >> ELSE Utf8Bytes(Head(s)) \o Utf8Encode(Tail(s))

IsCont(b) == b \in 128..191

\* Width of the first UTF-8 sequence of a byte string, 0 if it is not valid.
Utf8Width(b) ==
  IF b[1] < 128 THEN 1
  ELSE IF b[1] \in 194..223 /\ Len(b) >= 2 /\ IsCont(b[2]) THEN 2
  ELSE IF /\ b[1] \in 224..239
          /\ Len(b) >= 3
          /\ IsCont(b[2])
          /\ IsCont(b[3])
          /\ (b[1] = 224 => b[2] >= 160)
          /\ (b[1] = 237 => b[2] <= 159) THEN 3
  ELSE IF /\ b[1] \in 240..244
          /\ Len(b) >= 4
          /\ IsCont(b[2])
          /\ IsCont(b[3])
          /\ IsCont(b[4])
          /\ (b[1] = 240 => b[2] >= 144)
          /\ (b[1] = 244 => b[2] <= 143) THEN 4
  ELSE 0

\* Code point of the first UTF-8 sequence, of the given width.
Utf8CodePoint(b, width) ==
  CASE width = 1 -> b[1]
    [] width = 2 -> (b[1] - 192) * 64 + (b[2] - 128)
    [] width = 3 -> (b[1] - 224) * 4096 + (b[2] - 128) * 64 + (b[3] - 128)
    [] width = 4 -> (b[1] - 240) * 262144 + (b[2] - 128) * 4096
                      + (b[3] - 128) * 64 + (b[4] - 128)

Utf8Cons(cp, r) == IF r.ok THEN [ok |-> TRUE, chars |-> << cp >> \o r.chars] ELSE r

\* str::from_utf8: the code points of a byte sequence, or an error.
RECURSIVE Utf8Decode(_)
Utf8DecodeStep(b, width) ==
  IF width = 0 THEN [ok |-> FALSE, chars |-> << >>]
  ELSE Utf8Cons(Utf8CodePoint(b, width), Utf8Decode(SubSeq(b, width + 1, Len(b))))

Utf8Decode(b) ==
  IF b = << >> THEN [ok |-> TRUE, chars |-> << >>] ELSE Utf8DecodeStep(b, Utf8Width(b))

\* percent_encoding::percent_decode over bytes: %HH becomes the byte, anything
\* else is copied.
RECURSIVE PercentDecodeBytes(_)
PercentDecodeBytes(b) ==
  IF b = << >> THEN << >>
  ELSE IF b[1] = Percent /\ Len(b) >= 3 /\ IsHexDigit(b[2]) /\ IsHexDigit(b[3])
    THEN << 16 * HexVal(b[2]) + HexVal(b[3]) >> \o PercentDecodeBytes(SubSeq(b, 4, Len(b)))
    ELSE << b[1] >> \o PercentDecodeBytes(Tail(b))

\* percent_decode_str(s).decode_utf8()
PercentDecodeUtf8(s) == Utf8Decode(PercentDecodeBytes(Utf8Encode(s)))

-----------------------------------------------------------------------------
(* Positions *)

RECURSIVE ByteLen(_)
ByteLen(s) == IF s = << >> THEN 0 ELSE Utf8Len(Head(s)) + ByteLen(Tail(s))

NewLines(s) == Cardinality({k \in 1..Len(s) : s[k] = 10})

LastNewLine(s) ==
  IF NewLines(s) = 0 THEN 0
  ELSE CHOOSE k \in 1..Len(s) : s[k] = 10 /\ \A j \in (k + 1)..Len(s) : s[j] # 10

\* Mutant: the offset counts characters, not bytes.
PositionOfCharacters(t, i) ==
  [offset |-> i,
   line   |-> 1 + NewLines(SubSeq(t, 1, i)),
   column |-> i - LastNewLine(SubSeq(t, 1, i)) + 1]

\* Position::from(span) for the span of text t that starts after i characters.
PositionOf(t, i) ==
  [offset |-> ByteLen(SubSeq(t, 1, i)),
   line   |-> 1 + NewLines(SubSeq(t, 1, i)),
   column |-> i - LastNewLine(SubSeq(t, 1, i)) + 1]

\* Position::unknown()
PositionUnknown == [offset |-> 0, line |-> 0, column |-> 0]

-----------------------------------------------------------------------------
(* Parser results (IResult of nom): Ok((rest, out)), Err(Error), Err(Failure). *)
(* A parser is an operator of the text t and the number i of characters        *)
(* consumed so far; each step of a parser that uses the result of a            *)
(* sub-parser is an operator that takes that result as an argument.            *)

POk(rest, out) == [ok |-> TRUE, rest |-> rest, out |-> out]

PError(at, kind) == [ok |-> FALSE, failure |-> FALSE, at |-> at, kind |-> kind]

PFailure(at, kind) == [ok |-> FALSE, failure |-> TRUE, at |-> at, kind |-> kind]

\* nom::combinator::cut: a recoverable error becomes a failure.
Cut(r) == IF r.ok THEN r ELSE [r EXCEPT !.failure = TRUE]

\* nom::branch::alt: the next alternative is tried on a recoverable error only.
Alt2(a, b) == IF a.ok \/ a.failure THEN a ELSE b

Alt3(a, b, c) == Alt2(a, Alt2(b, c))

\* nom tag of one character.
Tag(t, i, c) ==
  IF i < Len(t) /\ t[i + 1] = c THEN POk(i + 1, << c >>) ELSE PError(i, "Tag")

\* End of the longest run of characters of class cls that starts after i characters.
RECURSIVE TakeWhileEnd(_, _, _)
TakeWhileEnd(t, i, cls) ==
  IF i < Len(t) /\ InClass(cls, t[i + 1]) THEN TakeWhileEnd(t, i + 1, cls) ELSE i

\* The run from i to e as a result: an error of the given kind if it is empty.
TakenNonEmpty(t, i, e, kind) ==
  IF e = i THEN PError(i, kind) ELSE POk(e, SubSeq(t, i + 1, e))

\* take_while1, take_while, digit1
TakeWhile1(t, i, cls) == TakenNonEmpty(t, i, TakeWhileEnd(t, i, cls), "TakeWhile1")

TakeWhileAny(t, i, e) == POk(e, SubSeq(t, i + 1, e))

TakeWhile(t, i, cls) == TakeWhileAny(t, i, TakeWhileEnd(t, i, cls))

Digit1(t, i) == TakenNonEmpty(t, i, TakeWhileEnd(t, i, "digit"), "Digit")

\* take_while_m_n(2, 2, is_digit(16))
TakeHex2(t, i) ==
  IF i + 2 <= Len(t) /\ IsHexDigit(t[i + 1]) /\ IsHexDigit(t[i + 2])
  THEN POk(i + 2, SubSeq(t, i + 1, i + 2))
  ELSE PError(i, "TakeWhileMN")

-----------------------------------------------------------------------------
(* Grammar: lexical units *)

IdentifierJoin(a, b) == POk(b.rest, a.out \o b.out)

IdentifierTail(t, a) ==
  IF ~a.ok THEN a ELSE IdentifierJoin(a, TakeWhile(t, a.rest, "alnum_"))

identifier(t, i) == IdentifierTail(t, TakeWhile1(t, i, "alpha_"))

\* Mutant: a run of no character is a parameter text too.
parameter_text_any(t, i) == TakeWhile(t, i, "alnum_")

parameter_text(t, i) == TakeWhile1(t, i, "alnum_")

\* Mutant: a '%' that no two hex digits follow is kept as it is.
PercentOutRaw(p, hex) ==
  IF ~hex.ok THEN POk(p.rest, << Percent >>) ELSE POk(hex.rest, << Percent >> \o hex.out)

PercentHexPassThrough(t, p) == IF ~p.ok THEN p ELSE PercentOutRaw(p, TakeHex2(t, p.rest))

PercentOut(hex) ==
  IF ~hex.ok THEN hex ELSE POk(hex.rest, << Percent >> \o hex.out)

PercentHex(t, p) == IF ~p.ok THEN p ELSE PercentOut(Cut(TakeHex2(t, p.rest)))

percent_encoding(t, i) == PercentHex(t, Tag(t, i, Percent))

\* A matched tag replaced by the text it stands for.
Replace(r, out) == IF r.ok THEN POk(r.rest, out) ELSE r

tilde_entity(t, i) == Replace(Tag(t, i, Tilde), << Tilde >>)

\* Mutant: the entity ~_ keeps its underscore.
minus_entity_underscore(t, i) == Replace(Tag(t, i, Underscore), << Underscore >>)

minus_entity(t, i) == Replace(Tag(t, i, Underscore), << Minus >>)

NegativeNumber(number) ==
  IF number.ok THEN POk(number.rest, << Minus >> \o number.out) ELSE number

negative_number_entity(t, i) == NegativeNumber(Digit1(t, i))

EntityBody(t, start) ==
  IF ~start.ok THEN start
  ELSE Cut(Alt3(tilde_entity(t, start.rest),
                minus_entity(t, start.rest),
                negative_number_entity(t, start.rest)))

parameter_entity(t, i) == EntityBody(t, Tag(t, i, Tilde))

\* alt((parameter_text, parameter_entity, percent_encoding))
ParameterPiece(t, i) ==
  Alt3(parameter_text(t, i), parameter_entity(t, i), percent_encoding(t, i))

\* many0 of the pieces, already joined: par.join("")
RECURSIVE ParameterPieces(_, _, _)
ParameterPiecesStep(t, i, acc, r) ==
  IF ~r.ok THEN (IF r.failure THEN r ELSE POk(i, acc))
  ELSE IF r.rest = i THEN PError(i, "Many0")
  ELSE ParameterPieces(t, r.rest, acc \o r.out)

ParameterPieces(t, i, acc) == ParameterPiecesStep(t, i, acc, ParameterPiece(t, i))

\* ActionParameter::new_parsed (the String variant; Link is never constructed)
ActionParameterNewParsed(txt, position) ==
  [variant |-> "String", text |-> txt, position |-> position]

ParameterOut(position, rest, dec) ==
  IF ~dec.ok THEN PFailure(rest, "Escaped")
  ELSE POk(rest, ActionParameterNewParsed(dec.chars, position))

ParameterDecode(t, i, par) ==
  IF ~par.ok THEN par
  ELSE ParameterOut(PositionOf(t, i), par.rest, PercentDecodeUtf8(par.out))

parameter(t, i) == ParameterDecode(t, i, ParameterPieces(t, i, << >>))

-----------------------------------------------------------------------------
(* Grammar: actions, paths, segments *)

\* many0(pair(tag("-"), parameter))
RECURSIVE ActionParameters(_, _, _)
ActionParametersStep(t, i, acc, p) ==
  IF ~p.ok THEN (IF p.failure THEN p ELSE POk(i, acc))
  ELSE IF p.rest = i THEN PError(i, "Many0")
  ELSE ActionParameters(t, p.rest, Append(acc, p.out))

ActionParametersMinus(t, i, acc, m) ==
  IF ~m.ok THEN POk(i, acc) ELSE ActionParametersStep(t, i, acc, parameter(t, m.rest))

ActionParameters(t, i, acc) == ActionParametersMinus(t, i, acc, Tag(t, i, Minus))

ParseActionOut(position, name, p) ==
  IF ~p.ok THEN p
  ELSE POk(p.rest, [name |-> name, position |-> position, parameters |-> p.out])

ParseActionName(t, i, name) ==
  IF ~name.ok THEN name
  ELSE ParseActionOut(PositionOf(t, i), name.out, ActionParameters(t, name.rest, << >>))

parse_action(t, i) == ParseActionName(t, i, identifier(t, i))

\* The loop of separated_list(tag("/"), parse_action) after the first element.
RECURSIVE ActionPathLoop(_, _, _)
ActionPathNext(t, i, res, a) ==
  IF ~a.ok THEN (IF a.failure THEN a ELSE POk(i, res))
  ELSE IF a.rest = i THEN PError(a.rest, "SeparatedList")
  ELSE ActionPathLoop(t, a.rest, Append(res, a.out))

ActionPathSep(t, i, res, sep) ==
  IF ~sep.ok THEN POk(i, res)
  ELSE IF sep.rest = i THEN PError(sep.rest, "SeparatedList")
  ELSE ActionPathNext(t, i, res, parse_action(t, sep.rest))

ActionPathLoop(t, i, res) == ActionPathSep(t, i, res, Tag(t, i, Slash))

\* Mutant: a path needs a first action.
ActionPathFirstNonempty(t, i, a) ==
  IF ~a.ok THEN a
  ELSE IF a.rest = i THEN PError(a.rest, "SeparatedList")
  ELSE ActionPathLoop(t, a.rest, << a.out >>)

ActionPathFirst(t, i, a) ==
  IF ~a.ok THEN (IF a.failure THEN a ELSE POk(i, << >>))
  ELSE IF a.rest = i THEN PError(a.rest, "SeparatedList")
  ELSE ActionPathLoop(t, a.rest, << a.out >>)

\* separated_list(tag("/"), parse_action)
parse_action_path(t, i) == ActionPathFirst(t, i, parse_action(t, i))

ActionPathNonemptyFirst(t, i, a) ==
  IF ~a.ok THEN a
  ELSE IF a.rest = i THEN PError(a.rest, "SeparatedList")
  ELSE ActionPathLoop(t, a.rest, << a.out >>)

\* separated_nonempty_list(tag("/"), parse_action)
parse_action_path_nonempty(t, i) == ActionPathNonemptyFirst(t, i, parse_action(t, i))

\* Mutant: any run of '-' counts as one.
SegmentIndicatorCountOne(i, e) ==
  IF e = i THEN PError(i, "Many1Count") ELSE POk(e, 1)

SegmentIndicatorCount(i, e) ==
  IF e = i THEN PError(i, "Many1Count") ELSE POk(e, e - i)

\* many1_count(tag("-"))
parse_segment_indicator(t, i) == SegmentIndicatorCount(i, TakeWhileEnd(t, i, "minus"))

\* SegmentHeader::new_parsed_minimal
SegmentHeaderNewParsedMinimal(level, position) ==
  [name |-> << >>, level |-> level, position |-> position, parameters |-> << >>]

\* SegmentHeader::new_parsed_from_action_request
SegmentHeaderNewParsedFromActionRequest(level, position, request) ==
  [name |-> request.name, level |-> level, position |-> position,
   parameters |-> request.parameters]

SegmentHeaderOut(position, level, request) ==
  IF request.ok
    THEN POk(request.rest,
             SegmentHeaderNewParsedFromActionRequest(level.out, position, request.out))
  ELSE IF request.failure THEN request
  ELSE POk(level.rest, SegmentHeaderNewParsedMinimal(level.out, position))

SegmentHeaderLevel(t, i, level) ==
  IF ~level.ok THEN level
  ELSE SegmentHeaderOut(PositionOf(t, i), level, parse_action(t, level.rest))

parse_segment_header(t, i) == SegmentHeaderLevel(t, i, parse_segment_indicator(t, i))

\* QuerySegment::new_from; an Option is a sequence of at most one element.
QuerySegmentNewFrom(header, query) == [header |-> header, query |-> query]

\* QuerySegment::new
QuerySegmentNew == [header |-> << >>, query |-> << >>]

\* pair(tag("/"), parse_action_path)
SlashPath(t, sl) == IF sl.ok THEN parse_action_path(t, sl.rest) ELSE sl

SegmentWithHeaderOut(header, q) ==
  IF q.ok THEN POk(q.rest, QuerySegmentNewFrom(<< header.out >>, q.out))
  ELSE IF q.failure THEN q
  ELSE POk(header.rest, QuerySegmentNewFrom(<< header.out >>, << >>))

SegmentWithHeaderPath(t, header) ==
  IF ~header.ok THEN header
  ELSE SegmentWithHeaderOut(header, SlashPath(t, Tag(t, header.rest, Slash)))

parse_segment_with_header(t, i) == SegmentWithHeaderPath(t, parse_segment_header(t, i))

SegmentWithoutHeaderOut(query) ==
  IF ~query.ok THEN query ELSE POk(query.rest, QuerySegmentNewFrom(<< >>, query.out))

parse_segment_without_header(t, i) ==
  SegmentWithoutHeaderOut(parse_action_path_nonempty(t, i))

\* alt((parse_segment_with_header, parse_segment_without_header))
parse_segment(t, i) ==
  Alt2(parse_segment_with_header(t, i), parse_segment_without_header(t, i))

\* The loop of separated_list(tag("/"), parse_segment) after the first element.
RECURSIVE SegmentListLoop(_, _, _)
SegmentListNext(t, i, res, a) ==
  IF ~a.ok THEN (IF a.failure THEN a ELSE POk(i, res))
  ELSE IF a.rest = i THEN PError(a.rest, "SeparatedList")
  ELSE SegmentListLoop(t, a.rest, Append(res, a.out))

SegmentListSep(t, i, res, sep) ==
  IF ~sep.ok THEN POk(i, res)
  ELSE IF sep.rest = i THEN PError(sep.rest, "SeparatedList")
  ELSE SegmentListNext(t, i, res, parse_segment(t, sep.rest))

SegmentListLoop(t, i, res) == SegmentListSep(t, i, res, Tag(t, i, Slash))

SegmentListFirst(t, i, a) ==
  IF ~a.ok THEN (IF a.failure THEN a ELSE POk(i, << >>))
  ELSE IF a.rest = i THEN PError(a.rest, "SeparatedList")
  ELSE SegmentListLoop(t, a.rest, << a.out >>)

ParseQueryOut(segments) ==
  IF ~segments.ok THEN segments
  ELSE POk(segments.rest, [segments |-> segments.out])

parse_query(t, i) == ParseQueryOut(SegmentListFirst(t, i, parse_segment(t, i)))

-----------------------------------------------------------------------------
(* Errors and the public parse functions *)

\* Error::General: the message is the formatted nom error (its place and kind).
ErrorGeneral(r) ==
  [kind |-> "General", message |-> << "Parse error", r.at, r.kind >>]

\* Mutant: the remainder is reported at the place of its last character.
ErrorParseErrorAtEnd(t, i) ==
  [kind |-> "ParseError",
   message |-> << "Can't parse query completely:", SubSeq(t, Len(t), Len(t)) >>,
   position |-> PositionOf(t, Len(t) - 1)]

\* Error::ParseError: the message holds the unconsumed remainder.
ErrorParseError(t, i) ==
  [kind |-> "ParseError",
   message |-> << "Can't parse query completely:", SubSeq(t, i + 1, Len(t)) >>,
   position |-> PositionOf(t, i)]

ROk(v) == [ok |-> TRUE, value |-> v]

RErr(e) == [ok |-> FALSE, error |-> e]

\* The map_err and the remainder test shared by parse_query_simple and parse.
CompleteParse(query, r) ==
  IF ~r.ok THEN RErr(ErrorGeneral(r))
  ELSE IF Len(query) - r.rest > 0 THEN RErr(ErrorParseError(query, r.rest))
  ELSE ROk(r.out)

\* parse_query_simple(query): the flat action path
parse_query_simple(query) == CompleteParse(query, parse_action_path(query, 0))

\* parse(query): the segmented query
parse(query) == CompleteParse(query, parse_query(query, 0))

-----------------------------------------------------------------------------
(* Syntax model: constructors and encoders (query.rs) *)

\* ActionParameter::new
ActionParameterNew(txt) ==
  [variant |-> "String", text |-> txt, position |-> PositionUnknown]

\* ActionParameter::encode (String variant): the text as it is
ActionParameterEncode(p) == p.text

\* Vec<String>::join(sep)
RECURSIVE Join(_, _)
Join(strs, sep) ==
  IF strs = << >> THEN << >>
  ELSE IF Len(strs) = 1 THEN strs[1]
  ELSE strs[1] \o sep \o Join(Tail(strs), sep)

EncodedParameters(ps) == [k \in 1..Len(ps) |-> ActionParameterEncode(ps[k])]

ActionRequestEncode(a) ==
  IF a.parameters = << >> THEN a.name
  ELSE a.name \o << Minus >> \o Join(EncodedParameters(a.parameters), << Minus >>)

\* The two assertions of SegmentHeader::encode.
SegmentHeaderEncodePanics(h) ==
  \/ ~(h.level >= 1)
  \/ (h.parameters # << >> /\ ~(Len(h.name) > 0))

RECURSIVE DashParameters(_)
DashParameters(ps) ==
  IF ps = << >> THEN << >>
  ELSE << Minus >> \o ActionParameterEncode(Head(ps)) \o DashParameters(Tail(ps))

SegmentHeaderEncode(h) ==
  [k \in 1..h.level |-> Minus] \o h.name \o DashParameters(h.parameters)

EncodedPath(path) ==
  Join([k \in 1..Len(path) |-> ActionRequestEncode(path[k])], << Slash >>)

QuerySegmentEncodeWith(seg, query) ==
  IF seg.header # << >>
    THEN IF query = << >> THEN SegmentHeaderEncode(seg.header[1])
         ELSE SegmentHeaderEncode(seg.header[1]) \o << Slash >> \o query
  ELSE query

QuerySegmentEncode(seg) == QuerySegmentEncodeWith(seg, EncodedPath(seg.query))

QueryEncode(q) ==
  Join([k \in 1..Len(q.segments) |-> QuerySegmentEncode(q.segments[k])], << Slash >>)

QueryEncodePanics(q) ==
  \E k \in 1..Len(q.segments) :
    /\ q.segments[k].header # << >>
    /\ SegmentHeaderEncodePanics(q.segments[k].header[1])

\* Query::new
QueryNew == [segments |-> << >>]

\* Query::add_segment(name)
QueryAddSegment(q, name) ==
  [segments |->
     Append(q.segments,
            QuerySegmentNewFrom(
              << [name |-> name, level |-> 1, position |-> PositionUnknown,
                  parameters |-> << >>] >>,
              << >>))]

-----------------------------------------------------------------------------
(* Values and parameter coercion (value.rs, query.rs) *)

\* enum Value: the tag, and the integer or the text it carries
ValueInteger(x) == [tag |-> "Integer", int |-> x, str |-> << >>]

ValueText(x) == [tag |-> "Text", int |-> 0, str |-> x]

ValueBool(x) == [tag |-> "Bool", int |-> IF x THEN 1 ELSE 0, str |-> << >>]

ValueNone == [tag |-> "None", int |-> 0, str |-> << >>]

\* Value::Real: no operation of the model reads the number of a Real
ValueReal == [tag |-> "Real", int |-> 0, str |-> << >>]

\* impl TryFrom<Value> for i32
ValueTryIntoI32(value) ==
  CASE value.tag = "None"    -> RErr([kind |-> "ConversionError",
                                     message |-> << "Can't convert None to integer" >>])
    [] value.tag = "Text"    -> RErr([kind |-> "ConversionError",
                                     message |-> << "Can't convert Text to integer" >>])
    [] value.tag = "Bool"    -> RErr([kind |-> "ConversionError",
                                     message |-> << "Can't convert Bool to integer" >>])
    [] value.tag = "Integer" -> ROk(value.int)
    [] value.tag = "Real"    -> RErr([kind |-> "ConversionError",
                                     message |-> << "Can't convert real number to integer" >>])

\* The digit loop of str::parse::<i32>: checked_mul(10) then checked_add (or
\* checked_sub, for a negative number) of each digit.
RECURSIVE ParseDigits(_, _, _)
ParseDigits(d, acc, sign) ==
  IF d = << >> THEN [ok |-> TRUE, value |-> acc]
  ELSE IF ~IsDecDigit(Head(d)) THEN [ok |-> FALSE, value |-> 0]
  ELSE IF sign = 1
    THEN IF acc > (2147483647 - (Head(d) - 48)) \div 10 THEN [ok |-> FALSE, value |-> 0]
         ELSE ParseDigits(Tail(d), 10 * acc + (Head(d) - 48), sign)
  ELSE IF -acc > (IF Head(d) = 48 THEN 2147483647 \div 10
                  ELSE (2147483647 - (Head(d) - 49)) \div 10)
    THEN [ok |-> FALSE, value |-> 0]
  ELSE ParseDigits(Tail(d), 10 * acc - (Head(d) - 48), sign)

\* str::parse::<i32>: an optional sign, then at least one digit
ParseI32(txt) ==
  IF txt = << >> THEN [ok |-> FALSE, value |-> 0]
  ELSE IF txt[1] = Minus
    THEN (IF Len(txt) = 1 THEN [ok |-> FALSE, value |-> 0] ELSE ParseDigits(Tail(txt), 0, -1))
  ELSE IF txt[1] = Plus
    THEN (IF Len(txt) = 1 THEN [ok |-> FALSE, value |-> 0] ELSE ParseDigits(Tail(txt), 0, 1))
  ELSE ParseDigits(txt, 0, 1)

I32FromParsed(txt, r) ==
  IF r.ok THEN ROk(r.value) ELSE RErr(<< "Can't parse", txt, "as integer" >>)

\* impl TryParameterFrom for i32 and for String: a value or an error message
TryParameterFrom(type, txt) ==
  IF type = "i32" THEN I32FromParsed(txt, ParseI32(txt)) ELSE ROk(txt)

\* The cursor after a take: the value or the error, and the slice that is left.
Taken(res, slice) == [result |-> res, slice |-> slice]

\* Mutant: the error of a coercion carries no position.
TryParametersIntoStringUnknown(slice, position, v) ==
  IF ~v.ok
    THEN Taken(RErr([kind |-> "ParameterError", message |-> v.error,
                     position |-> PositionUnknown]), slice)
  ELSE Taken(ROk(v.value), Tail(slice))

\* Mutant: a take that fails advances the cursor too.
TryParametersIntoStringAdvance(slice, position, v) ==
  IF ~v.ok
    THEN Taken(RErr([kind |-> "ParameterError", message |-> v.error,
                     position |-> position]), Tail(slice))
  ELSE Taken(ROk(v.value), Tail(slice))

TryParametersIntoString(slice, position, v) ==
  IF ~v.ok
    THEN Taken(RErr([kind |-> "ParameterError", message |-> v.error,
                     position |-> position]), slice)
  ELSE Taken(ROk(v.value), Tail(slice))

\* impl TryActionParametersInto for ActionParametersSlice
TryParametersInto(slice, type) ==
  IF slice = << >> THEN Taken(RErr([kind |-> "ArgumentNotSpecified"]), slice)
  ELSE IF slice[1].variant = "String"
    THEN TryParametersIntoString(slice, slice[1].position,
                                 TryParameterFrom(type, slice[1].text))
  ELSE Taken(RErr([kind |-> "General", message |-> << "Not implemented" >>]), slice)

-----------------------------------------------------------------------------
(* Callable action adapters (action_registry.rs) *)

\* The native functions of the tests: |x| x*x, |x,y| x+y, |x,y| x*y.
Native(f, args) ==
  CASE f = "square" -> args[1] * args[1]
    [] f = "add"    -> args[1] + args[2]
    [] f = "mul"    -> args[1] * args[2]

\* What an adapter returns: the Result and the native invocations it made.
Outcome(res, invoked) == [result |-> res, calls |-> invoked]

InputConversionFailed(e) ==
  RErr([kind |-> "ConversionError",
        message |-> << "Input argument conversion failed; ", "Error: " >> \o e.message])

Invoke(f, args) ==
  Outcome(ROk(ValueInteger(Native(f, args))), << [f |-> f, args |-> args] >>)

\* call_action of Function1<i32,i32> and of a bare Fn(i32)->i32
Function1Converted(f, fInput) ==
  IF ~fInput.ok THEN Outcome(InputConversionFailed(fInput.error), << >>)
  ELSE Invoke(f, << fInput.value >>)

\* Mutant: the adapter of arity 1 asks for a parameter.
Function1CallActionTaking(f, input, arguments) ==
  IF arguments = << >> THEN Outcome(RErr([kind |-> "ArgumentNotSpecified"]), << >>)
  ELSE Function1Converted(f, ValueTryIntoI32(input))

Function1CallAction(f, input, arguments) ==
  Function1Converted(f, ValueTryIntoI32(input))

ClosureCallAction(f, input, arguments) ==
  Function1Converted(f, ValueTryIntoI32(input))

\* call_action of Function2<i32,i32,i32>
Function2Parameter(f, a1, a2) ==
  IF ~a2.result.ok THEN Outcome(a2.result, << >>)
  ELSE Invoke(f, << a1, a2.result.value >>)

\* Mutant: the parameter is taken before the input is converted.
Function2TakenFirst(f, a1, a2) ==
  IF ~a2.result.ok THEN Outcome(a2.result, << >>)
  ELSE IF ~a1.ok THEN Outcome(InputConversionFailed(a1.error), << >>)
  ELSE Invoke(f, << a1.value, a2.result.value >>)

Function2ConvertedLate(f, a1, arguments) ==
  Function2TakenFirst(f, a1, TryParametersInto(arguments, "i32"))

Function2Converted(f, a1, arguments) ==
  IF ~a1.ok THEN Outcome(InputConversionFailed(a1.error), << >>)
  ELSE Function2Parameter(f, a1.value, TryParametersInto(arguments, "i32"))

Function2CallAction(f, input, arguments) ==
  Function2Converted(f, ValueTryIntoI32(input), arguments)

\* CallableAction::call_action of a boxed action
CallAction(action, input, arguments) ==
  CASE action.kind = "Function1" -> Function1CallAction(action.f, input, arguments)
    [] action.kind = "Function2" -> Function2CallAction(action.f, input, arguments)
    [] action.kind = "Closure"   -> ClosureCallAction(action.f, input, arguments)

-----------------------------------------------------------------------------
(* Action registry and evaluator (action_registry.rs) *)

\* HashMap::insert
MapInsert(m, k, v) == [x \in (DOMAIN m) \cup {k} |-> IF x = k THEN v ELSE m[x]]

\* HashMap::new
MapNew == [x \in {} |-> 0]

\* Mutant: the entry of the namespace is always a new map.
EntryOrInsertFresh(reg, ns) == MapNew

\* entry(ns).or_insert(HashMap::new())
EntryOrInsert(reg, ns) == IF ns \in DOMAIN reg THEN reg[ns] ELSE MapNew

\* What HashMap::insert returns: the action the name had before, if any.
Replaced(reg, ns, name) ==
  IF ns \in DOMAIN reg /\ name \in DOMAIN reg[ns] THEN << reg[ns][name] >> ELSE << >>

\* HashMapActionRegistry::register_callable_action
RegisterCallableAction(reg, ns, name, action) ==
  MapInsert(reg, ns, MapInsert(EntryOrInsert(reg, ns), name, action))

\* The literals of the two messages of call.
ActionText == Str(<< "A", "c", "t", "i", "o", "n", " " >>)

NotRegisteredText ==
  Str(<< " ", "n", "o", "t", " ", "r", "e", "g", "i", "s", "t", "e", "r", "e", "d", " ",
         "i", "n", " ", "n", "a", "m", "e", "s", "p", "a", "c", "e", " " >>)

NoSuchNamespaceText ==
  Str(<< ";", " ", "n", "o", " ", "s", "u", "c", "h", " ", "n", "a", "m", "e", "s", "p",
         "a", "c", "e" >>)

\* Mutant: the namespace miss is reported with the message of the name miss.
NoSuchNamespaceSameMessage(ns, name) ==
  [kind |-> "ActionNotRegistered",
   message |-> ActionText \o name \o NotRegisteredText \o ns]

NoSuchNamespace(ns, name) ==
  [kind |-> "ActionNotRegistered",
   message |-> ActionText \o name \o NotRegisteredText \o ns \o NoSuchNamespaceText]

NoSuchAction(ns, name) ==
  [kind |-> "ActionNotRegistered",
   message |-> ActionText \o name \o NotRegisteredText \o ns]

\* HashMapActionRegistry::call
RegistryCall(reg, ns, name, input, arguments) ==
  IF ns \notin DOMAIN reg THEN Outcome(RErr(NoSuchNamespace(ns, name)), << >>)
  ELSE IF name \notin DOMAIN reg[ns] THEN Outcome(RErr(NoSuchAction(ns, name)), << >>)
  ELSE CallAction(reg[ns][name], input, arguments)

\* Mutant: eval resolves in another namespace.
RootNamespaceOther == Str(<< "o", "t", "h", "e", "r" >>)

\* The namespace eval resolves every action in.
RootNamespace == Str(<< "r", "o", "o", "t" >>)

\* The for loop of eval over path[k..], with the native invocations made so far.
RECURSIVE EvalLoop(_, _, _, _, _)
\* Mutant: a failing action is skipped and the chain goes on with the old value.
EvalStepSkipFailed(reg, path, k, value, invoked, r) ==
  IF ~r.result.ok THEN EvalLoop(reg, path, k + 1, value, invoked \o r.calls)
  ELSE EvalLoop(reg, path, k + 1, r.result.value, invoked \o r.calls)

EvalStep(reg, path, k, value, invoked, r) ==
  IF ~r.result.ok THEN Outcome(r.result, invoked \o r.calls)
  ELSE EvalLoop(reg, path, k + 1, r.result.value, invoked \o r.calls)

EvalLoop(reg, path, k, value, invoked) ==
  IF k > Len(path) THEN Outcome(ROk(value), invoked)
  ELSE EvalStep(reg, path, k, value, invoked,
                RegistryCall(reg, RootNamespace, path[k].name, value, path[k].parameters))

EvalParsed(reg, input, path) ==
  IF ~path.ok THEN Outcome(path, << >>)
  ELSE EvalLoop(reg, path.value, 1, input, << >>)

\* Mutant: the actions of the parsed prefix are dispatched before the leftover
\* input is reported.
RegistryEvalPrefix(reg, input, query) ==
  IF parse_action_path(query, 0).ok /\ ~parse_query_simple(query).ok
    THEN Outcome(parse_query_simple(query),
                 EvalLoop(reg, parse_action_path(query, 0).out, 1, input, << >>).calls)
  ELSE EvalParsed(reg, input, parse_query_simple(query))

\* Environment::eval of HashMapActionRegistry.  The parser it calls returns the
\* list of ActionRequest it iterates over: the flat grammar, parse_query_simple.
RegistryEval(reg, input, query) == EvalParsed(reg, input, parse_query_simple(query))

-----------------------------------------------------------------------------
(* Inputs of the parser *)

\* Longest enumerated input text.
MaxLen == 5

\* Characters of the enumerated input texts.
Alphabet == { Ord("a"), Ord("1"), Ord("2"), Underscore, Minus, Slash, Tilde, Percent }

\* e with an acute accent: a letter of two UTF-8 bytes
EAcute == Utf8CodePoint(<< 195, 169 >>, 2)

\* Longer texts: those of the tests of parse.rs and action_registry.rs and
\* texts with two-byte characters and multi-byte percent escapes.
ExampleTexts ==
  { Str(<< "s", "q", "u", "a", "r", "e", "/", "a", "d", "d", "-", "1", "0" >>),
    Str(<< "a", "b", "c", "-", "d", "e", "f", "/", "x", "x", "x", "-", "1", "2", "3" >>),
    Str(<< "a", "b", "c", "-", "~", "~", "x", "-", "~", "1", "2", "3" >>),
    Str(<< "a", "b", "c", "~", "~", "~", "_", "~", "0", "%", "2", "1" >>),
    Str(<< "p", "-", "a", "b", "c", "~", "~", "~", "_", "~", "0", "%", "2", "1" >>),
    Str(<< "a", "b", "~", "~", "c", "d" >>),
    Str(<< "~", "1", "2", "3" >>),
    Str(<< "-", "-", "a", "b", "c", "-", "d", "-", "e", "f" >>),
    Str(<< "-", "a", "b", "c", "/", "x", "-", "y", "/", "-", "n", "e", "x", "t" >>),
    Str(<< "-", "a", "b", "c", "/", "x", "-", "y" >>),
    Str(<< "a", "b", "c", "-", "d", "e", "f", "/", "-", "/", "x", "-", "y" >>),
    Str(<< "-", "a", "/", "-", "b", "/", "x" >>),
    Str(<< "%", "c", "3", "%", "a", "9" >>),
    Str(<< "a", "-", "%", "c", "3", "%", "a", "9" >>),
    Str(<< "a", "-", "%", "2", "D", "x", "/", "b", "-", "%", "7", "e" >>),
    Str(<< "a", "-", "%", "c", "3", "/", "b" >>),
    << EAcute, Minus, EAcute, Slash, Percent >>,
    << EAcute, Minus, EAcute, Slash, Ord("a"), Minus, Ord("1") >>,
    << Minus, EAcute, Minus, Ord("a"), Slash, EAcute, Minus, Minus, EAcute >>,
    Str(<< "s", "q", "u", "a", "r", "e", "/", "a", "d", "d", "-", "a", "b", "c" >>),
    << Minus, EAcute, Slash, EAcute, Minus, Tilde, EAcute >> }

Texts == UNION { [1..n -> Alphabet] : n \in 0..MaxLen } \cup ExampleTexts

-----------------------------------------------------------------------------
(* State *)

VARIABLES
  text,      \* the input text given to the parser
  grammar,   \* which entry point ran: "flat", "segmented", "parameter", "builder",
             \* "segment"
  pc,        \* "input", "parsed", "evaluated", "built", "segment", "encoded",
             \* "reparsed", "running", "cursor"
  parsed,    \* result of the parse, the Query under construction, or the
             \* QuerySegment that QuerySegment::new made
  encoded,   \* encode() of the parsed value
  reparsed,  \* result of parsing the encoded text
  registry,  \* HashMapActionRegistry: namespace -> name -> action
  op,        \* the last registry operation and its arguments
  result,    \* the Result the last call or eval returned
  calls,     \* the native functions the last call or eval invoked, in order
  registered, \* history: the action last given to register for each (ns, name)
  par,       \* an ActionParametersSlice: the parameters not taken yet
  run        \* a parse in progress: the repetition it is in and its cursor

parseVars == << text, grammar, pc, parsed, encoded, reparsed >>

regVars == << registry, op, result, calls, registered >>

stepVars == << par, run >>

vars ==
  << text, grammar, pc, parsed, encoded, reparsed, registry, op, result, calls, registered,
     par, run >>

\* No operation, no result.
None == [kind |-> "none", ok |-> FALSE]

-----------------------------------------------------------------------------
(* The parser as a state machine: parse, encode the result, parse again *)

\* The registry eval is run in: square and add as test_eval registers them,
\* and add under the name "a" as well.
EvalRegistry ==
  RegisterCallableAction(
    RegisterCallableAction(
      RegisterCallableAction(MapNew, RootNamespace, Str(<< "s", "q", "u", "a", "r", "e" >>),
                             [kind |-> "Function1", f |-> "square"]),
      RootNamespace, Str(<< "a", "d", "d" >>), [kind |-> "Function2", f |-> "add"]),
    RootNamespace, Str(<< "a" >>), [kind |-> "Function2", f |-> "add"])

InitParse ==
  /\ text \in Texts
  /\ grammar = "none"
  /\ pc = "input"
  /\ parsed = None
  /\ encoded = None
  /\ reparsed = None
  /\ registry = EvalRegistry
  /\ op = None
  /\ result = None
  /\ calls = << >>
  /\ registered = MapNew
  /\ par = << >>
  /\ run = None

\* parse_query_simple(text)
ParseQuerySimple ==
  /\ pc = "input"
  /\ grammar' = "flat"
  /\ parsed' = parse_query_simple(text)
  /\ pc' = "parsed"
  /\ UNCHANGED << text, encoded, reparsed, regVars, stepVars >>

\* parse(text)
Parse ==
  /\ pc = "input"
  /\ grammar' = "segmented"
  /\ parsed' = parse(text)
  /\ pc' = "parsed"
  /\ UNCHANGED << text, encoded, reparsed, regVars, stepVars >>

\* parameter(Span::new(text)), as the tests of parse.rs call it
ParseParameter ==
  /\ pc = "input"
  /\ grammar' = "parameter"
  /\ parsed' = parameter(text, 0)
  /\ pc' = "parsed"
  /\ UNCHANGED << text, encoded, reparsed, regVars, stepVars >>

\* encode() of what was parsed or built: Query::encode for a Query, and
\* QuerySegment::encode of the headerless segment for a flat path.
EncodeValue(g, v) ==
  IF g = "flat" THEN
    [panic |-> FALSE, text |-> QuerySegmentEncode(QuerySegmentNewFrom(<< >>, v))]
  ELSE IF QueryEncodePanics(v) THEN [panic |-> TRUE, text |-> << >>]
  ELSE [panic |-> FALSE, text |-> QueryEncode(v)]

Encode ==
  /\ pc \in {"parsed", "built"}
  /\ grammar \in {"flat", "segmented", "builder"}
  /\ parsed.ok
  /\ encoded' = EncodeValue(grammar, parsed.value)
  /\ pc' = "encoded"
  /\ UNCHANGED << text, grammar, parsed, reparsed, regVars, stepVars >>

\* The encoded text is parsed with the grammar the value belongs to.
ParseAs(g, t) == IF g = "flat" THEN parse_query_simple(t) ELSE parse(t)

Reparse ==
  /\ pc = "encoded"
  /\ ~encoded.panic
  /\ reparsed' = ParseAs(grammar, encoded.text)
  /\ pc' = "reparsed"
  /\ UNCHANGED << text, grammar, parsed, encoded, regVars, stepVars >>

EvalReturned(input, out) ==
  /\ result' = out.result
  /\ calls' = out.calls
  /\ op' = [kind |-> "eval", input |-> input, query |-> text]

\* registry.eval(Value::Integer(2), text)
EvalText ==
  /\ pc = "input"
  /\ pc' = "evaluated"
  /\ EvalReturned(ValueInteger(2), RegistryEval(registry, ValueInteger(2), text))
  /\ UNCHANGED << text, grammar, parsed, encoded, reparsed, registry, registered, stepVars >>

NextParse ==
  \/ EvalText
  \/ ParseQuerySimple
  \/ Parse
  \/ ParseParameter
  \/ Encode
  \/ Reparse

SpecParse == InitParse /\ [][NextParse]_vars

-----------------------------------------------------------------------------
(* The builder: Query::new, add_segment, encode, parse *)

\* Most segments added to one Query.
MaxSegments == 3

\* Identifier names given to add_segment.
SegmentNames ==
  { Str(<< "a" >>), Str(<< "t", "e", "s", "t" >>), Str(<< "_", "x", "1" >>),
    << EAcute, Ord("2") >> }

InitBuild ==
  /\ text = << >>
  /\ grammar = "builder"
  /\ pc = "built"
  /\ parsed = ROk(QueryNew)
  /\ encoded = None
  /\ reparsed = None
  /\ registry = MapNew
  /\ op = None
  /\ result = None
  /\ calls = << >>
  /\ registered = MapNew
  /\ par = << >>
  /\ run = None

AddSegment ==
  /\ pc = "built"
  /\ Len(parsed.value.segments) < MaxSegments
  /\ \E name \in SegmentNames : parsed' = ROk(QueryAddSegment(parsed.value, name))
  /\ UNCHANGED << text, grammar, pc, encoded, reparsed, regVars, stepVars >>

\* QuerySegment::new()
NewSegment ==
  /\ pc = "built"
  /\ grammar' = "segment"
  /\ pc' = "segment"
  /\ parsed' = ROk(QuerySegmentNew)
  /\ UNCHANGED << text, encoded, reparsed, regVars, stepVars >>

NextBuild ==
  \/ AddSegment
  \/ NewSegment
  \/ Encode
  \/ Reparse

SpecBuild == InitBuild /\ [][NextBuild]_vars

-----------------------------------------------------------------------------
(* The registry and the evaluator as a state machine *)

\* Most actions in an enumerated query path.
MaxPath == 2

OtherNamespace == Str(<< "o", "t", "h", "e", "r" >>)

Namespaces == { RootNamespace, OtherNamespace }

NameSquare == Str(<< "s", "q", "u", "a", "r", "e" >>)

NameAdd == Str(<< "a", "d", "d" >>)

NameNop == Str(<< "n", "o", "p" >>)

\* The (namespace, name) pairs actions are registered under, and the names calls
\* ask for.
Registrations ==
  { << RootNamespace, NameSquare >>, << RootNamespace, NameAdd >>,
    << OtherNamespace, NameAdd >> }

CallNames == { NameSquare, NameAdd, NameNop }

\* The boxed actions of the tests: Function1 and a closure over |x| x*x,
\* Function2 over |x,y| x+y.
Actions ==
  { [kind |-> "Function1", f |-> "square"],
    [kind |-> "Function2", f |-> "add"],
    [kind |-> "Closure", f |-> "square"] }

InputValues ==
  { ValueInteger(2), ValueText(Str(<< "a", "b", "c" >>)), ValueNone, ValueBool(TRUE),
    ValueReal }

\* The values eval starts from.
EvalInputs == { ValueInteger(2), ValueText(Str(<< "a", "b", "c" >>)) }

\* Parameters with positions, as the parser makes them.
ParsedArguments ==
  parse_action(Str(<< "a", "d", "d", "-", "a", "b", "c", "-", "1", "0" >>), 0).out.parameters

ArgumentLists ==
  { << >>,
    ParsedArguments,
    << ActionParameterNew(Str(<< "1", "0" >>)) >>,
    << ActionParameterNew(Str(<< "a", "b", "c" >>)) >>,
    << ActionParameterNew(Str(<< "3" >>)), ActionParameterNew(Str(<< "x" >>)) >> }

\* The actions query paths are made of, and the tails that end a query.
ActionTexts ==
  { NameSquare,
    NameAdd \o Str(<< "-", "1", "0" >>),
    NameAdd,
    NameAdd \o Str(<< "-", "a", "b", "c" >>),
    NameNop \o Str(<< "-", "1" >>) }

QueryTails == { << >>, Str(<< "/" >>), Str(<< "/", "%", "2" >>), Str(<< "-", "%" >>) }

QueryTexts ==
  { Join(p, << Slash >>) \o tail :
      p \in UNION { [1..n -> ActionTexts] : n \in 0..MaxPath }, tail \in QueryTails }

Init ==
  /\ registry = MapNew
  /\ registered = MapNew
  /\ par = << >>
  /\ run = None
  /\ op = None
  /\ result = None
  /\ calls = << >>
  /\ text = << >>
  /\ grammar = "none"
  /\ pc = "input"
  /\ parsed = None
  /\ encoded = None
  /\ reparsed = None

\* An operation runs when the caller holds no result of an earlier one.
Idle == op = None

Register ==
  \E ns \in Namespaces, name \in CallNames, action \in Actions :
    /\ << ns, name >> \in Registrations
    /\ Idle
    /\ registry' = RegisterCallableAction(registry, ns, name, action)
    /\ registered' = MapInsert(registered, << ns, name >>, action)
    /\ op' = [kind |-> "register", ns |-> ns, name |-> name, action |-> action,
              replaced |-> Replaced(registry, ns, name)]
    /\ result' = None
    /\ calls' = << >>
    /\ UNCHANGED << parseVars, stepVars >>

Returned(out) ==
  /\ result' = out.result
  /\ calls' = out.calls

Call ==
  \E ns \in Namespaces, name \in CallNames, input \in InputValues,
     arguments \in ArgumentLists :
    /\ Idle
    /\ Returned(RegistryCall(registry, ns, name, input, arguments))
    /\ op' = [kind |-> "call", ns |-> ns, name |-> name, input |-> input,
              arguments |-> arguments]
    /\ UNCHANGED << registry, registered, parseVars, stepVars >>

Eval ==
  \E input \in EvalInputs, query \in QueryTexts :
    /\ Idle
    /\ Returned(RegistryEval(registry, input, query))
    /\ op' = [kind |-> "eval", input |-> input, query |-> query]
    /\ UNCHANGED << registry, registered, parseVars, stepVars >>

\* The caller takes the result; the registry is ready for the next operation.
TakeResult ==
  /\ ~Idle
  /\ op' = None
  /\ result' = None
  /\ calls' = << >>
  /\ UNCHANGED << registry, registered, parseVars, stepVars >>

Next ==
  \/ Register
  \/ Call
  \/ Eval
  \/ TakeResult

Spec == Init /\ [][Next]_vars

-----------------------------------------------------------------------------
(* The parser step by step: one step is one iteration of one repetition       *)
(* (many0 of the pieces of a parameter, many0 of the '-' parameter pairs,     *)
(* separated_list of the actions of a path, separated_list of the segments).  *)
(* A step knows the cursor only; what is parsed is in parse and               *)
(* parse_query_simple.                                                        *)

InitSteps ==
  /\ text \in Texts
  /\ grammar \in {"flat", "segmented"}
  /\ pc = "running"
  /\ run = [mode |-> IF grammar = "flat" THEN "path" ELSE "segments", i |-> 0,
            first |-> TRUE, ctx |-> "path", acc |-> << >>, steps |-> 0]
  /\ parsed = None
  /\ encoded = None
  /\ reparsed = None
  /\ registry = MapNew
  /\ registered = MapNew
  /\ par = << >>
  /\ op = None
  /\ result = None
  /\ calls = << >>

\* The repetition goes on, or another one is entered, with the cursor at i.
Goto(mode, i, ctx, acc) ==
  /\ run' = [mode |-> mode, i |-> i, first |-> FALSE, ctx |-> ctx, acc |-> acc,
             steps |-> run.steps + 1]
  /\ UNCHANGED << pc, parsed >>

\* The grammar returns r to parse or parse_query_simple.
Finish(r) ==
  /\ run' = [run EXCEPT !.mode = "done", !.steps = @ + 1]
  /\ pc' = "parsed"
  /\ parsed' = r

\* Where the next element of a separated_list starts: at the cursor for the
\* first element, after the '/' for another one; -1 if no '/' is there.
ElementStart ==
  IF run.first THEN run.i
  ELSE IF run.i < Len(text) /\ text[run.i + 1] = Slash THEN run.i + 1
  ELSE -1

\* parse_action starts with an identifier; its parameters are the next repetition.
ActionStarts(name, ctx) == Goto("params", name.rest, ctx, << >>)

\* One iteration of many0(alt((parameter_text, parameter_entity, percent_encoding)))
PiecesOn(r) ==
  IF r.ok THEN Goto("pieces", r.rest, run.ctx, run.acc \o r.out)
  ELSE IF r.failure THEN Finish(r)
  ELSE IF ~PercentDecodeUtf8(run.acc).ok THEN Finish(PFailure(run.i, "Escaped"))
  ELSE Goto("params", run.i, run.ctx, << >>)

StepPieces ==
  /\ pc = "running"
  /\ run.mode = "pieces"
  /\ PiecesOn(ParameterPiece(text, run.i))
  /\ UNCHANGED << text, grammar, encoded, reparsed, regVars, par >>

\* One iteration of many0(pair(tag("-"), parameter))
StepParams ==
  /\ pc = "running"
  /\ run.mode = "params"
  /\ IF run.i < Len(text) /\ text[run.i + 1] = Minus
       THEN Goto("pieces", run.i + 1, run.ctx, << >>)
     ELSE IF run.ctx = "header" THEN Goto("headerpath", run.i, "path", << >>)
     ELSE Goto("path", run.i, "path", << >>)
  /\ UNCHANGED << text, grammar, encoded, reparsed, regVars, par >>

\* The path ends: the flat grammar returns, a segment is followed by the next.
PathEnds ==
  IF grammar = "flat" THEN Finish(POk(run.i, << >>))
  ELSE Goto("segments", run.i, "path", << >>)

PathAction(name) == IF name.ok THEN ActionStarts(name, "path") ELSE PathEnds

PathAt(j) == IF j < 0 THEN PathEnds ELSE PathAction(identifier(text, j))

\* One iteration of separated_list(tag("/"), parse_action)
StepPath ==
  /\ pc = "running"
  /\ run.mode = "path"
  /\ PathAt(ElementStart)
  /\ UNCHANGED << text, grammar, encoded, reparsed, regVars, par >>

HeaderPathAction(name) ==
  IF name.ok THEN ActionStarts(name, "path")
  ELSE Goto("segments", run.i + 1, "path", << >>)

\* opt(pair(tag("/"), parse_action_path)) after a header
StepHeaderPath ==
  /\ pc = "running"
  /\ run.mode = "headerpath"
  /\ IF run.i < Len(text) /\ text[run.i + 1] = Slash
       THEN HeaderPathAction(identifier(text, run.i + 1))
     ELSE Goto("segments", run.i, "path", << >>)
  /\ UNCHANGED << text, grammar, encoded, reparsed, regVars, par >>

\* opt(parse_action) after the '-' of a header that end at e
HeaderName(e, name) ==
  IF name.ok THEN ActionStarts(name, "header") ELSE Goto("headerpath", e, "path", << >>)

HeaderAt(e) == HeaderName(e, identifier(text, e))

HeaderlessAt(name) ==
  IF name.ok THEN ActionStarts(name, "path") ELSE Finish(POk(run.i, << >>))

SegmentAt(j) ==
  IF j < 0 THEN Finish(POk(run.i, << >>))
  ELSE IF j < Len(text) /\ text[j + 1] = Minus
    THEN HeaderAt(TakeWhileEnd(text, j, "minus"))
  ELSE HeaderlessAt(identifier(text, j))

\* One iteration of separated_list(tag("/"), parse_segment)
StepSegments ==
  /\ pc = "running"
  /\ run.mode = "segments"
  /\ SegmentAt(ElementStart)
  /\ UNCHANGED << text, grammar, encoded, reparsed, regVars, par >>

NextSteps ==
  \/ StepPieces
  \/ StepParams
  \/ StepPath
  \/ StepHeaderPath
  \/ StepSegments

SpecSteps == InitSteps /\ [][NextSteps]_vars

-----------------------------------------------------------------------------
(* The parameter cursor: successive try_parameters_into on one slice *)

\* Most parameters in a slice.
MaxParameters == 3

\* The texts of the parameters: those of the tests of query.rs, a word, a
\* negative number and the empty text.
ParameterTextSet ==
  { Str(<< "1", "2", "3" >>), Str(<< "2", "3", "4" >>), Str(<< "a", "b", "c" >>),
    Str(<< "-", "5" >>), << >> }

\* The k-th parameter of a list is given the position k.
ParameterAt(txt, k) ==
  ActionParameterNewParsed(txt, [offset |-> k, line |-> 1, column |-> k + 1])

ParameterListsOf(n) ==
  { [k \in 1..n |-> ParameterAt(txts[k], k)] : txts \in [1..n -> ParameterTextSet] }

ParameterLists == UNION { ParameterListsOf(n) : n \in 0..MaxParameters }

NativeTypes == { "i32", "String" }

InitCursor ==
  /\ par \in ParameterLists
  /\ op = None
  /\ result = None
  /\ run = None
  /\ registry = MapNew
  /\ registered = MapNew
  /\ calls = << >>
  /\ text = << >>
  /\ grammar = "none"
  /\ pc = "cursor"
  /\ parsed = None
  /\ encoded = None
  /\ reparsed = None

TakeReturned(type, taken) ==
  /\ result' = taken.result
  /\ par' = taken.slice
  /\ op' = [kind |-> "take", type |-> type, before |-> par, earlier |-> result]

\* par.try_parameters_into(&mut ()) for the native type T
TryParametersIntoTake ==
  /\ pc = "cursor"
  /\ \E type \in NativeTypes : TakeReturned(type, TryParametersInto(par, type))
  /\ UNCHANGED << parseVars, registry, registered, calls, run >>

NextCursor == TryParametersIntoTake

SpecCursor == InitCursor /\ [][NextCursor]_vars

-----------------------------------------------------------------------------
(* Claims about the evaluator and the registry (specification Spec) *)

\* The namespace "root" of the claims.
RootText == Str(<< "r", "o", "o", "t" >>)

\* What each query text parses into with the flat grammar.
ParsedQuery == [q \in QueryTexts |-> parse_query_simple(q)]

InRoot(reg, name) == RootText \in DOMAIN reg /\ name \in DOMAIN reg[RootText]

\* Left fold of the first n actions of a path over v: the result of action n on
\* the value the first n - 1 actions produced; the first action that fails, or
\* that is not registered in "root", ends it.
Folded(n, res) ==
  IF res.ok THEN [ok |-> TRUE, value |-> res.value, at |-> n, registered |-> TRUE]
  ELSE [ok |-> FALSE, value |-> res, at |-> n, registered |-> TRUE]

RECURSIVE FoldActions(_, _, _, _)
FoldApply(reg, request, n, prev) ==
  IF ~prev.ok THEN prev
  ELSE IF ~InRoot(reg, request.name)
    THEN [ok |-> FALSE, value |-> None, at |-> n, registered |-> FALSE]
  ELSE Folded(n, CallAction(reg[RootText][request.name], prev.value,
                            request.parameters).result)

FoldActions(reg, path, n, v) ==
  IF n = 0 THEN [ok |-> TRUE, value |-> v, at |-> 0, registered |-> TRUE]
  ELSE FoldApply(reg, path[n], n, FoldActions(reg, path, n - 1, v))

FoldOf(reg, path, v) == FoldActions(reg, path, Len(path), v)

SquareAdd10 == Str(<< "s", "q", "u", "a", "r", "e", "/", "a", "d", "d", "-", "1", "0" >>)

SquareAndAddInRoot ==
  /\ InRoot(registry, NameSquare)
  /\ InRoot(registry, NameAdd)
  /\ registry[RootText][NameSquare].kind \in {"Function1", "Closure"}
  /\ registry[RootText][NameSquare].f = "square"
  /\ registry[RootText][NameAdd] = [kind |-> "Function2", f |-> "add"]

LeftFold(path, fold) ==
  /\ fold.ok => result = ROk(fold.value)
  /\ (op.query = SquareAdd10 /\ op.input = ValueInteger(2) /\ SquareAndAddInRoot) =>
       result = ROk(ValueInteger(14))
  /\ Len(calls) <= Len(path)
  /\ \A j \in 1..Len(calls) :
       /\ InRoot(registry, path[j].name)
       /\ calls[j].f = registry[RootText][path[j].name].f

LeftFoldOfParsed(p) == p.ok => LeftFold(p.value, FoldOf(registry, p.value, op.input))

\* C1: when the query parses into actions that are all registered in "root" and
\* all succeed, eval returns the left fold of the actions over the input in path
\* order; eval(2, "square/add-10") is 14 with square and add in "root"; every
\* native function eval invokes is the one registered in "root" under the name
\* of the action at that place of the path, never one of another namespace.
C1_EvalIsLeftFold == op.kind = "eval" => LeftFoldOfParsed(ParsedQuery[op.query])

\* C1 witness: eval(2, "square/add-10") returned 14 while "add" in the other
\* namespace is bound to another action than "add" in "root".
C1_Witness ==
  /\ op.kind = "eval"
  /\ op.query = SquareAdd10
  /\ op.input = ValueInteger(2)
  /\ result.ok
  /\ result.value = ValueInteger(14)
  /\ Len(calls) = 2
  /\ OtherNamespace \in DOMAIN registry
  /\ NameAdd \in DOMAIN registry[OtherNamespace]
  /\ registry[OtherNamespace][NameAdd] # registry[RootText][NameAdd]

FailFast(fold) ==
  ~fold.ok =>
    /\ ~result.ok
    /\ Len(calls) = fold.at - 1
    /\ IF fold.registered THEN result = fold.value
       ELSE result.error.kind = "ActionNotRegistered"

FailFastOfParsed(p) == p.ok => FailFast(FoldOf(registry, p.value, op.input))

\* C2: when action k is the first of the parsed path to fail, eval returns that
\* action's error (ActionNotRegistered for a name that "root" does not hold),
\* only the actions before k have invoked their native function, and no value
\* is returned.
C2_FailFast == op.kind = "eval" => FailFastOfParsed(ParsedQuery[op.query])

\* C2 witness: "square/nop-1" with square registered: square ran, nop is not
\* registered.
C2_Witness ==
  /\ op.kind = "eval"
  /\ op.query = NameSquare \o << Slash >> \o NameNop \o Str(<< "-", "1" >>)
  /\ op.input = ValueInteger(2)
  /\ ~result.ok
  /\ result.error.kind = "ActionNotRegistered"
  /\ Len(calls) = 1

ParseErrorReturned(p) ==
  ~p.ok =>
    /\ result = p
    /\ ~result.ok
    /\ result.error.kind \in {"ParseError", "General"}
    /\ calls = << >>

\* C3: when the query text does not parse completely, eval returns the parse
\* error and has invoked no action, not even those of the valid prefix.
C3_ParseBeforeDispatch ==
  op.kind = "eval" => ParseErrorReturned(ParsedQuery[op.query])

\* C3 witness: "square/add-10/" with square and add registered in "root".
C3_Witness ==
  /\ op.kind = "eval"
  /\ op.query = SquareAdd10 \o << Slash >>
  /\ op.input = ValueInteger(2)
  /\ SquareAndAddInRoot
  /\ ~result.ok
  /\ result.error.kind = "ParseError"

\* C4: call fails with ActionNotRegistered when the namespace was never
\* registered into and when the namespace exists without the name; the message
\* of the one case differs from the message of the other case for the same
\* namespace and name; no native function is invoked.
C4_NotRegistered ==
  op.kind = "call" =>
    /\ op.ns \notin DOMAIN registry =>
         /\ ~result.ok
         /\ result.error.kind = "ActionNotRegistered"
         /\ result.error.message # NoSuchAction(op.ns, op.name).message
         /\ calls = << >>
    /\ (op.ns \in DOMAIN registry /\ op.name \notin DOMAIN registry[op.ns]) =>
         /\ ~result.ok
         /\ result.error.kind = "ActionNotRegistered"
         /\ result.error.message # NoSuchNamespace(op.ns, op.name).message
         /\ calls = << >>

\* C4 witness: a call of a name the namespace does not hold, in a namespace
\* that holds another name.
C4_Witness ==
  /\ op.kind = "call"
  /\ op.ns \in DOMAIN registry
  /\ op.name \notin DOMAIN registry[op.ns]
  /\ ~result.ok

Resolves(reg, pair, action) ==
  /\ pair[1] \in DOMAIN reg
  /\ pair[2] \in DOMAIN reg[pair[1]]
  /\ reg[pair[1]][pair[2]] = action

LastWriteWins ==
  \A pair \in DOMAIN registered : Resolves(registry, pair, registered[pair])

CallDispatchesToLast ==
  (op.kind = "call" /\ << op.ns, op.name >> \in DOMAIN registered) =>
    Outcome(result, calls) =
      CallAction(registered[<< op.ns, op.name >>], op.input, op.arguments)

RegisterKeepsOthers ==
  op'.kind = "register" =>
    \A pair \in DOMAIN registered :
      pair # << op'.ns, op'.name >> => Resolves(registry', pair, registered[pair])

CallAndEvalKeepRegistry == op'.kind \in {"call", "eval"} => registry' = registry

\* C5: call dispatches to the action most recently registered under (ns, name);
\* every pair ever registered stays resolvable; registering one pair changes no
\* other pair; call and eval never change the registry.
C5_LastWriteWins ==
  /\ [](LastWriteWins /\ CallDispatchesToLast)
  /\ [][RegisterKeepsOthers /\ CallAndEvalKeepRegistry]_vars

\* C5 witness: a registration replaced another action under the same pair
\* while both namespaces hold another name.
C5_Witness ==
  /\ op.kind = "register"
  /\ op.replaced # << >>
  /\ op.replaced[1] # op.action
  /\ DOMAIN registered = Registrations

-----------------------------------------------------------------------------
(* Claims about the parser and the encoders (specifications SpecParse, SpecBuild) *)

\* The structure of a parsed value without its positions.
ParameterTexts(ps) == [k \in 1..Len(ps) |-> ps[k].text]

ActionStructure(a) == [name |-> a.name, parameters |-> ParameterTexts(a.parameters)]

PathStructure(path) == [k \in 1..Len(path) |-> ActionStructure(path[k])]

HeaderStructure(h) ==
  [name |-> h.name, level |-> h.level, parameters |-> ParameterTexts(h.parameters)]

SegmentStructure(seg) ==
  [header |-> [k \in 1..Len(seg.header) |-> HeaderStructure(seg.header[k])],
   query |-> PathStructure(seg.query)]

QueryStructure(q) == [k \in 1..Len(q.segments) |-> SegmentStructure(q.segments[k])]

Structure(g, v) == IF g = "flat" THEN PathStructure(v) ELSE QueryStructure(v)

\* C6: for every text that parses (flat or segmented grammar), the encoding of
\* the parsed value parses again, into a value of the same structure: the same
\* segments, headers, action names and decoded parameter texts.
C6_RoundTripFromText ==
  (pc = "reparsed" /\ grammar \in {"flat", "segmented"}) =>
    /\ reparsed.ok
    /\ Structure(grammar, reparsed.value) = Structure(grammar, parsed.value)

\* C7: for every Query built by add_segment calls with identifier names, the
\* encoding parses into as many segments, each with a level-1 header of the
\* same name and an empty action path.
SameBuiltSegment(seg, built) ==
  /\ Len(seg.header) = 1
  /\ seg.header[1].level = 1
  /\ seg.header[1].name = built.header[1].name
  /\ seg.header[1].parameters = << >>
  /\ seg.query = << >>

C7_RoundTripFromBuilder ==
  (pc = "reparsed" /\ grammar = "builder") =>
    /\ reparsed.ok
    /\ Len(reparsed.value.segments) = Len(parsed.value.segments)
    /\ \A k \in 1..Len(parsed.value.segments) :
         SameBuiltSegment(reparsed.value.segments[k], parsed.value.segments[k])

\* What the grammar of the entry point matched of the text.
GrammarResult(g, t) == IF g = "flat" THEN parse_action_path(t, 0) ELSE parse_query(t, 0)

RemainderIs(remainder, offset) ==
  /\ ~parsed.ok
  /\ parsed.error.kind = "ParseError"
  /\ parsed.error.message[2] = remainder
  /\ parsed.error.position.offset = offset

CompleteOrRemainder(r) ==
  /\ parsed.ok => (r.ok /\ r.rest = Len(text))
  /\ (r.ok /\ r.rest < Len(text)) =>
       RemainderIs(SubSeq(text, r.rest + 1, Len(text)),
                   ByteLen(text) - ByteLen(SubSeq(text, r.rest + 1, Len(text))))
  /\ text = Str(<< "a", "/" >>) => RemainderIs(Str(<< "/" >>), 1)
  /\ text = Str(<< "/", "a" >>) => RemainderIs(Str(<< "/", "a" >>), 0)

\* C8: parse and parse_query_simple succeed only when the grammar consumed the
\* whole input; when the grammar matched a proper prefix the result is a
\* ParseError with the unconsumed remainder and the byte offset where the
\* remainder starts ("a/": "/" at 1; "/a": "/a" at 0).
C8_CompleteOrRemainder ==
  (pc = "parsed" /\ grammar \in {"flat", "segmented"}) =>
    CompleteOrRemainder(GrammarResult(grammar, text))

\* C8 witness: the remainder "/%" after two two-byte letters and a '-' starts at
\* byte 5, after 3 characters.
C8_Witness ==
  /\ pc = "parsed"
  /\ grammar = "segmented"
  /\ text = << EAcute, Minus, EAcute, Slash, Percent >>
  /\ ~parsed.ok
  /\ parsed.error.kind = "ParseError"
  /\ parsed.error.message[2] = << Slash, Percent >>
  /\ parsed.error.position.offset = 5

\* C9: every error of parse and parse_query_simple carries a Position: it is a
\* ParseError, also for a malformed escape.
C9_ErrorsCarryPosition ==
  (pc = "parsed" /\ grammar \in {"flat", "segmented"} /\ ~parsed.ok) =>
    /\ parsed.error.kind = "ParseError"
    /\ "position" \in DOMAIN parsed.error

\* The decoding of the claim, piece by piece: a letter, digit or '_' stands for
\* itself, ~~ for ~, ~_ for -, ~ before a digit for -, %HH for the character
\* of code HH.
RECURSIVE PieceDecode(_)
PieceDecode(s) ==
  IF s = << >> THEN << >>
  ELSE IF s[1] = Tilde /\ Len(s) >= 2 /\ s[2] = Tilde
    THEN << Tilde >> \o PieceDecode(SubSeq(s, 3, Len(s)))
  ELSE IF s[1] = Tilde /\ Len(s) >= 2 /\ s[2] = Underscore
    THEN << Minus >> \o PieceDecode(SubSeq(s, 3, Len(s)))
  ELSE IF s[1] = Tilde THEN << Minus >> \o PieceDecode(Tail(s))
  ELSE IF s[1] = Percent
    THEN << 16 * HexVal(s[2]) + HexVal(s[3]) >> \o PieceDecode(SubSeq(s, 4, Len(s)))
  ELSE << s[1] >> \o PieceDecode(Tail(s))

\* Every percent escape of s is the escape of an ASCII character.
AsciiEscapes(s) ==
  \A k \in 1..Len(s) : s[k] = Percent => (k + 2 <= Len(s) /\ HexVal(s[k + 1]) < 8)

DecodesTo(source, decoded) ==
  text = source =>
    /\ parsed.ok
    /\ parsed.rest = Len(source)
    /\ parsed.out.text = decoded

\* C10: the decoded text of a parameter is the concatenation of its decoded
\* pieces: "~~" gives "~", "~_" gives "-", "~123" gives "-123", "ab~~cd" gives
\* "ab~cd", "%21" gives "!", "abc~~~_~0%21" gives "abc~--0!".
C10_ParameterDecoding ==
  (pc = "parsed" /\ grammar = "parameter") =>
    /\ (parsed.ok /\ AsciiEscapes(SubSeq(text, 1, parsed.rest))) =>
         parsed.out.text = PieceDecode(SubSeq(text, 1, parsed.rest))
    /\ DecodesTo(Str(<< "~", "~" >>), Str(<< "~" >>))
    /\ DecodesTo(Str(<< "~", "_" >>), Str(<< "-" >>))
    /\ DecodesTo(Str(<< "~", "1", "2", "3" >>), Str(<< "-", "1", "2", "3" >>))
    /\ DecodesTo(Str(<< "a", "b", "~", "~", "c", "d" >>), Str(<< "a", "b", "~", "c", "d" >>))
    /\ DecodesTo(Str(<< "%", "2", "1" >>), Str(<< "!" >>))
    /\ DecodesTo(Str(<< "a", "b", "c", "~", "~", "~", "_", "~", "0", "%", "2", "1" >>),
                 Str(<< "a", "b", "c", "~", "-", "-", "0", "!" >>))
    /\ DecodesTo(Str(<< "%", "c", "3", "%", "a", "9" >>), << EAcute >>)

\* C10 witness: the parameter of the test parse_escaped_parameter_test.
C10_Witness ==
  /\ pc = "parsed"
  /\ grammar = "parameter"
  /\ text = Str(<< "a", "b", "c", "~", "~", "~", "_", "~", "0", "%", "2", "1" >>)
  /\ parsed.ok
  /\ parsed.out.text = Str(<< "a", "b", "c", "~", "-", "-", "0", "!" >>)

\* Some '%' of s is not followed by two hex digits.
BadPercent(s) ==
  \E k \in 1..Len(s) :
    /\ s[k] = Percent
    /\ ~(k + 2 <= Len(s) /\ IsHexDigit(s[k + 1]) /\ IsHexDigit(s[k + 2]))

\* C11: a text in which some '%' is not followed by two hex digits is never
\* parsed successfully, by the flat or by the segmented grammar.
C11_BadPercentIsAnError ==
  (pc = "parsed" /\ grammar \in {"flat", "segmented"} /\ BadPercent(text)) => ~parsed.ok

\* C11 witness: the bad '%' is in a parameter of a header; the headerless form
\* is not tried after the failure.
C11_Witness ==
  /\ pc = "parsed"
  /\ grammar = "segmented"
  /\ text = Str(<< "-", "a", "-", "%" >>)
  /\ ~parsed.ok
  /\ parsed.error.kind = "General"

\* Where a parsed segment starts in the text: the number of characters before
\* its header, or before its first action if it has no header.
SegmentStart(seg) ==
  IF seg.header # << >> THEN seg.header[1].position.column - 1
  ELSE seg.query[1].position.column - 1

\* How many '-' follow the first i characters of t.
RECURSIVE DashRun(_, _)
DashRun(t, i) == IF i < Len(t) /\ t[i + 1] = Minus THEN 1 + DashRun(t, i + 1) ELSE 0

\* The letters, digits and '_' that follow the first i characters of t.
RECURSIVE WordAt(_, _)
WordAt(t, i) ==
  IF i < Len(t) /\ (IsAlphanumeric(t[i + 1]) \/ t[i + 1] = Underscore)
  THEN << t[i + 1] >> \o WordAt(t, i + 1) ELSE << >>

\* The identifier that follows the first i characters of t, empty if none.
NameAt(t, i) ==
  IF i < Len(t) /\ (IsAlphabetic(t[i + 1]) \/ t[i + 1] = Underscore)
  THEN WordAt(t, i) ELSE << >>

\* The segment seg is what the text that starts after i characters asks for.
SegmentAsWritten(seg, t, i) ==
  IF t[i + 1] = Minus
  THEN /\ Len(seg.header) = 1
       /\ seg.header[1].level = DashRun(t, i)
       /\ seg.header[1].level >= 1
       /\ seg.header[1].name = NameAt(t, i + DashRun(t, i))
  ELSE /\ seg.header = << >>
       /\ seg.query # << >>

\* The first segment starts the text, every other one follows a '/'.
SegmentFollowsSlash(t, k, i) == IF k = 1 THEN i = 0 ELSE (i >= 1 /\ t[i] = Slash)

SegmentsAsWritten(segments, t) ==
  \A k \in 1..Len(segments) :
    /\ SegmentFollowsSlash(t, k, SegmentStart(segments[k]))
    /\ SegmentAsWritten(segments[k], t, SegmentStart(segments[k]))

TextAbcXY == Str(<< "-", "a", "b", "c", "/", "x", "-", "y" >>)

TextAbcDefXY ==
  Str(<< "a", "b", "c", "-", "d", "e", "f", "/", "-", "/", "x", "-", "y" >>)

PathXY(path) ==
  /\ Len(path) = 1
  /\ path[1].name = Str(<< "x" >>)
  /\ ParameterTexts(path[1].parameters) = << Str(<< "y" >>) >>

PathAbcDef(path) ==
  /\ Len(path) = 1
  /\ path[1].name = Str(<< "a", "b", "c" >>)
  /\ ParameterTexts(path[1].parameters) = << Str(<< "d", "e", "f" >>) >>

HeaderIs(header, level, name) ==
  /\ Len(header) = 1
  /\ header[1].level = level
  /\ header[1].name = name

ParsedAbcXY(segments) ==
  /\ Len(segments) = 1
  /\ HeaderIs(segments[1].header, 1, Str(<< "a", "b", "c" >>))
  /\ PathXY(segments[1].query)

ParsedAbcDefXY(segments) ==
  /\ Len(segments) = 2
  /\ segments[1].header = << >>
  /\ PathAbcDef(segments[1].query)
  /\ HeaderIs(segments[2].header, 1, << >>)
  /\ PathXY(segments[2].query)

\* C12: in every text the segmented parse accepts, a segment that begins with
\* '-' has a header whose level is the number of its leading '-' and whose name
\* is the identifier after them, and any other segment has no header.
C12_SegmentDisambiguation ==
  (pc = "parsed" /\ grammar = "segmented") =>
    /\ parsed.ok =>
         SegmentsAsWritten(parsed.value.segments, text)
    /\ text = TextAbcXY => (parsed.ok /\ ParsedAbcXY(parsed.value.segments))
    /\ text = TextAbcDefXY => (parsed.ok /\ ParsedAbcDefXY(parsed.value.segments))

\* C12 witness: a headerless segment, then a segment of header '-' with no name.
C12_Witness ==
  /\ pc = "parsed"
  /\ grammar = "segmented"
  /\ text = TextAbcDefXY
  /\ parsed.ok
  /\ Len(parsed.value.segments) = 2
  /\ parsed.value.segments[2].header[1].level = 1

\* Texts in which a segment that is only a header is followed by a segment
\* with a header.
HeaderAfterHeaderTexts ==
  { Str(<< "-", "a", "/", "-", "a" >>),
    Str(<< "-", "/", "-" >>),
    Str(<< "-", "a", "/", "-", "b", "/", "x" >>) }

\* The '-' runs that start a segment: at the start of t or after a '/'.
HeaderCount(t) ==
  Cardinality({k \in 1..Len(t) : t[k] = Minus /\ (k = 1 \/ t[k - 1] = Slash)})

\* C13: a header-only segment directly followed by another header segment is
\* accepted by the segmented parse, with one segment per header, each with its
\* own header.
C13_HeaderAfterHeader ==
  (pc = "parsed" /\ grammar = "segmented" /\ text \in HeaderAfterHeaderTexts) =>
    /\ parsed.ok
    /\ Len(parsed.value.segments) = HeaderCount(text)
    /\ \A k \in 1..Len(parsed.value.segments) : parsed.value.segments[k].header # << >>

\* C14: the empty text is never an error: parse_query_simple gives an empty
\* list of actions, parse a Query of no segments, and eval returns its input
\* and invokes no action.
C14_EmptyInput ==
  /\ ParsedQuery[<< >>] = ROk(<< >>)
  /\ parse(<< >>) = ROk([segments |-> << >>])
  /\ (op.kind = "eval" /\ op.query = << >>) => (result = ROk(op.input) /\ calls = << >>)

\* C14 witness: eval of the empty query on a Text value, in a registry that
\* has actions in "root".
C14_Witness ==
  /\ op.kind = "eval"
  /\ op.query = << >>
  /\ op.input.tag = "Text"
  /\ RootText \in DOMAIN registry
  /\ result = ROk(op.input)
  /\ calls = << >>

\* The call of the state resolved to an action, and that action.
CallResolved ==
  /\ op.kind = "call"
  /\ op.ns \in DOMAIN registry
  /\ op.name \in DOMAIN registry[op.ns]

CalledAction == registry[op.ns][op.name]

\* A text of decimal digits and the number it writes.
AllDigits(s) == s # << >> /\ \A k \in 1..Len(s) : IsDecDigit(s[k])

RECURSIVE DecimalValue(_)
DecimalValue(s) ==
  IF s = << >> THEN 0 ELSE 10 * DecimalValue(SubSeq(s, 1, Len(s) - 1)) + (s[Len(s)] - 48)

\* A text that is no integer: some character is neither a digit nor a sign.
NoInteger(s) == \E k \in 1..Len(s) : ~IsDecDigit(s[k]) /\ s[k] \notin {Minus, Plus}

SecondArgumentIs(first, a1) ==
  /\ AllDigits(first.text) =>
       /\ result = ROk(ValueInteger(a1 + DecimalValue(first.text)))
       /\ calls = << [f |-> "add", args |-> << a1, DecimalValue(first.text) >>] >>
  /\ NoInteger(first.text) =>
       /\ ~result.ok
       /\ result.error.kind = "ParameterError"
       /\ result.error.position = first.position
       /\ result.error.message = << "Can't parse", first.text, "as integer" >>
       /\ result.error.message = TryParameterFrom("i32", first.text).error
       /\ calls = << >>

\* C15: a Function2 action whose input converts takes its second argument
\* from the first parameter only; with no parameter it fails with
\* ArgumentNotSpecified, and with a first parameter that is no integer it
\* fails with a ParameterError of that parameter's position and of the
\* coercion's message; the native function runs in neither failure.
C15_Function2 ==
  (CallResolved /\ CalledAction.kind = "Function2" /\ op.input.tag = "Integer") =>
    IF op.arguments = << >>
      THEN result = RErr([kind |-> "ArgumentNotSpecified"]) /\ calls = << >>
    ELSE SecondArgumentIs(op.arguments[1], op.input.int)

\* C15 witness: the first parameter "abc" of "add-abc-10" is no integer; the
\* error carries its position, 4 bytes into the text.
C15_Witness ==
  /\ CallResolved
  /\ CalledAction.kind = "Function2"
  /\ op.input.tag = "Integer"
  /\ op.arguments = ParsedArguments
  /\ ~result.ok
  /\ result.error.kind = "ParameterError"
  /\ result.error.position.offset = 4

\* C16: a Function1 action or a closure whose input converts invokes the
\* native function once and returns its output, whatever the parameters are.
C16_Function1 ==
  (CallResolved /\ CalledAction.kind \in {"Function1", "Closure"}
     /\ op.input.tag = "Integer") =>
    /\ result = ROk(ValueInteger(op.input.int * op.input.int))
    /\ calls = << [f |-> "square", args |-> << op.input.int >>] >>

\* C16 witness: a Function1 called with a parameter that is no integer.
C16_Witness ==
  /\ CallResolved
  /\ CalledAction.kind = "Function1"
  /\ op.input.tag = "Integer"
  /\ op.arguments = ParsedArguments
  /\ result = ROk(ValueInteger(4))
  /\ Len(calls) = 1

\* C17: an input that does not convert to i32 gives a ConversionError that
\* names the input conversion, in every adapter and for every parameter list,
\* and the native function is not invoked.
C17_InputConversion ==
  (CallResolved /\ op.input.tag # "Integer") =>
    /\ ~result.ok
    /\ result.error.kind = "ConversionError"
    /\ result.error.message[1] = "Input argument conversion failed; "
    /\ calls = << >>

\* C17 witness: a Function2 called on a Text value with no parameter.
C17_Witness ==
  /\ CallResolved
  /\ CalledAction.kind = "Function2"
  /\ op.input.tag = "Text"
  /\ op.arguments = << >>
  /\ ~result.ok
  /\ result.error.kind = "ConversionError"

\* A segment has a header or a path that is not empty.
SegmentNonEmpty(seg) == seg.header # << >> \/ seg.query # << >>

AllSegmentsNonEmpty(r) ==
  r.ok => \A k \in 1..Len(r.value.segments) : SegmentNonEmpty(r.value.segments[k])

\* C18: every QuerySegment made by the segmented parse, by Query::add_segment
\* or by QuerySegment::new has a header or a path that is not empty.
C18_SegmentsNonEmpty ==
  /\ (pc # "input" /\ grammar \in {"segmented", "builder"}) => AllSegmentsNonEmpty(parsed)
  /\ (pc = "reparsed" /\ grammar \in {"segmented", "builder"}) =>
       AllSegmentsNonEmpty(reparsed)
  /\ grammar = "segment" => SegmentNonEmpty(parsed.value)

\* What a take of the first parameter as a native type gives: the text
\* itself, the number a text of digits writes, an error for a text that is no
\* integer.
TakeOfFirst(type, first) ==
  IF type = "String" THEN result' = ROk(first.text) /\ par' = Tail(par)
  ELSE /\ AllDigits(first.text) =>
            (result' = ROk(DecimalValue(first.text)) /\ par' = Tail(par))
       /\ (NoInteger(first.text) \/ first.text = << >>) =>
            /\ ~result'.ok
            /\ result'.error.kind = "ParameterError"
            /\ result'.error.position = first.position
            /\ par' = par

TakeFrame ==
  /\ result'.ok => par' = Tail(par)
  /\ ~result'.ok => par' = par
  /\ IF par = << >>
       THEN result' = RErr([kind |-> "ArgumentNotSpecified"])
     ELSE TakeOfFirst(op'.type, par[1])

\* C20: a take that succeeds returns the coercion of the first parameter of
\* the cursor and advances the cursor by one; a take that fails, with
\* ArgumentNotSpecified or with ParameterError, leaves the cursor as it was.
C20_CursorAdvance == [][op'.kind = "take" => TakeFrame]_vars

\* C20 witness: "abc" was refused as an integer and then taken as text, and
\* the parameter after it is the next one.
C20_Witness ==
  /\ op.kind = "take"
  /\ op.type = "String"
  /\ result = ROk(Str(<< "a", "b", "c" >>))
  /\ "error" \in DOMAIN op.earlier
  /\ op.earlier.error.kind = "ParameterError"
  /\ op.earlier.error.position = op.before[1].position
  /\ par = Tail(op.before)
  /\ par # << >>

\* How deep a repetition is in the grammar.
Depth(mode) ==
  CASE mode = "pieces" -> 4
    [] mode = "params" -> 3
    [] mode = "path" -> 2
    [] mode = "headerpath" -> 1
    [] OTHER -> 0

\* What is left to do: the text after the cursor first, the depth second.
Rank(r) == 5 * (Len(text) - r.i) + Depth(r.mode)

\* The steps ended where the grammar of the entry point ends, with its result.
StepsAgree(r) ==
  /\ r.ok = parsed.ok
  /\ r.ok => r.rest = parsed.rest
  /\ ~r.ok => (r.failure = parsed.failure /\ r.at = parsed.at /\ r.kind = parsed.kind)

\* While the parse runs the cursor is in the text, the steps made and the
\* steps left are bounded, and the repetition it is in has a step to make;
\* when it has returned, it returned what the grammar returns.
StepsBounded ==
  /\ pc = "running" =>
       /\ run.i <= Len(text)
       /\ run.steps + Rank(run) <= 5 * Len(text) + 2
       /\ run.mode \in {"pieces", "params", "path", "headerpath", "segments"}
  /\ pc = "parsed" =>
       /\ run.steps <= 5 * Len(text) + 2
       /\ StepsAgree(GrammarResult(grammar, text))

\* C19: parsing terminates: each iteration of each repetition moves the cursor
\* forward or ends its repetition, the number of steps is bounded by the
\* length of the text, and the parse returns a success or an error.
C19_ParsingTerminates ==
  /\ []StepsBounded
  /\ [][pc' = "running" => (run'.i >= run.i /\ Rank(run') < Rank(run))]_vars

\* C19 witness: the parse of "-abc/x-y/-next" returned after a step in every
\* repetition.
C19_Witness ==
  /\ pc = "parsed"
  /\ grammar = "segmented"
  /\ text = Str(<< "-", "a", "b", "c", "/", "x", "-", "y", "/", "-", "n", "e", "x", "t" >>)
  /\ parsed.ok
  /\ parsed.rest = Len(text)
  /\ run.steps >= 9

\* The bytes of the first i characters of t.
ByteOffset(t, i) == ByteLen(SubSeq(t, 1, i))

\* The offset of the parameter is that of a place just after a '-'.
ParameterAfterDash(p, t) ==
  \E i \in 1..Len(t) : t[i] = Minus /\ ByteOffset(t, i) = p.position.offset

\* The parameters of a name that ends after e characters: each one follows a
\* '-', the first one the '-' that follows the name.
ParametersFollow(params, t, e) ==
  /\ \A k \in 1..Len(params) : ParameterAfterDash(params[k], t)
  /\ params # << >> =>
       /\ e < Len(t)
       /\ t[e + 1] = Minus
       /\ params[1].position.offset = ByteOffset(t, e + 1)

ActionStartsAt(a, t, i) ==
  /\ ByteOffset(t, i) = a.position.offset
  /\ SubSeq(t, i + 1, i + Len(a.name)) = a.name
  /\ (i = 0 \/ t[i] = Slash)
  /\ ParametersFollow(a.parameters, t, i + Len(a.name))

ActionRecorded(a, t) == \E i \in 0..(Len(t) - 1) : ActionStartsAt(a, t, i)

HeaderStartsAt(h, t, i) ==
  /\ ByteOffset(t, i) = h.position.offset
  /\ t[i + 1] = Minus
  /\ (i = 0 \/ t[i] = Slash)
  /\ SubSeq(t, i + h.level + 1, i + h.level + Len(h.name)) = h.name
  /\ ParametersFollow(h.parameters, t, i + h.level + Len(h.name))

HeaderRecorded(h, t) == \E i \in 0..(Len(t) - 1) : HeaderStartsAt(h, t, i)

PathRecorded(path, t) == \A k \in 1..Len(path) : ActionRecorded(path[k], t)

SegmentRecorded(seg, t) ==
  /\ seg.header # << >> => HeaderRecorded(seg.header[1], t)
  /\ PathRecorded(seg.query, t)

PositionsRecorded(g, v, t) ==
  IF g = "flat" THEN PathRecorded(v, t)
  ELSE \A k \in 1..Len(v.segments) : SegmentRecorded(v.segments[k], t)

\* The offsets of the nodes in the order of the text: a header or an action,
\* then its parameters.
NodeOffsets(node) ==
  << node.position.offset >>
    \o [k \in 1..Len(node.parameters) |-> node.parameters[k].position.offset]

RECURSIVE PathOffsets(_)
PathOffsets(path) ==
  IF path = << >> THEN << >> ELSE NodeOffsets(Head(path)) \o PathOffsets(Tail(path))

SegmentOffsets(seg) ==
  (IF seg.header = << >> THEN << >> ELSE NodeOffsets(seg.header[1]))
    \o PathOffsets(seg.query)

RECURSIVE SegmentsOffsets(_)
SegmentsOffsets(segments) ==
  IF segments = << >> THEN << >>
  ELSE SegmentOffsets(Head(segments)) \o SegmentsOffsets(Tail(segments))

AllOffsets(g, v) == IF g = "flat" THEN PathOffsets(v) ELSE SegmentsOffsets(v.segments)

Increasing(offsets) == \A k \in 1..(Len(offsets) - 1) : offsets[k] < offsets[k + 1]

\* The position of the error is that of the first parameter of an action of
\* the path, a text that is no integer, just after a '-' of the text.
OffendingParameter(path, e, t) ==
  /\ path.ok
  /\ \E i \in 1..Len(t) : t[i] = Minus /\ ByteOffset(t, i) = e.position.offset
  /\ \E k \in 1..Len(path.value) :
       /\ path.value[k].parameters # << >>
       /\ path.value[k].parameters[1].position = e.position
       /\ ~AllDigits(path.value[k].parameters[1].text)
       /\ e.message[2] = path.value[k].parameters[1].text

\* C21: in every parsed text the offset of an action is the byte offset of its
\* name, the offset of a parameter the byte offset just after its '-', the
\* offset of a header the byte offset of its first '-'; the offsets grow in
\* the order of the text; a ParameterError of eval carries the offset of the
\* parameter that was refused.
C21_RecordedPositions ==
  /\ (pc \in {"parsed", "encoded", "reparsed"} /\ grammar \in {"flat", "segmented"}
        /\ parsed.ok) =>
       /\ PositionsRecorded(grammar, parsed.value, text)
       /\ Increasing(AllOffsets(grammar, parsed.value))
  /\ (pc = "evaluated" /\ ~result.ok /\ result.error.kind = "ParameterError") =>
       OffendingParameter(parse_query_simple(text), result.error, text)

\* C21 witness: a header, its parameter, an action and its two parameters
\* after letters of two bytes.
C21_Witness ==
  /\ pc = "parsed"
  /\ grammar = "segmented"
  /\ text = << Minus, EAcute, Minus, Ord("a"), Slash, EAcute, Minus, Minus, EAcute >>
  /\ parsed.ok
  /\ AllOffsets(grammar, parsed.value) = << 0, 4, 6, 9, 10 >>

====
